---- MODULE Spec2Model ----
(***************************************************************************)
(* Property renaming of rollup-plugin-closure-compiler.                    *)
(*                                                                         *)
(*   PropertyRenameTransform.transform  (source transform, the scan)       *)
(*       src/src/transformers/source/property-rename.ts                    *)
(*   RequestedPropertyRename.post       (chunk transform, the rename pass) *)
(*       src/unnamed/part_000                                              *)
(*                                                                         *)
(* Both work on the shared registry this.memory.rename.  A name is a       *)
(* sequence of character codes, so that String.fromCharCode and the        *)
(* `_${...}` template are modelled by what they build.  A program is the   *)
(* syntax tree in pre-order: a sequence of nodes, each with its type, its  *)
(* name (identifiers) and the size of its subtree.  The source text is     *)
(* kept at token granularity: node i owns the span node.range of token i,  *)
(* so source.overwrite(start, end, s) replaces the token of that node.     *)
(***************************************************************************)
EXTENDS Integers, Sequences, FiniteSets, TLC

VARIABLES
  configuration,  \* what loadConfiguration returns for the plugin options
  memory,         \* this.memory.rename, shared by every transform instance
  stored,         \* this.stored of each RequestedPropertyRename instance
  program,        \* the unit (syntax tree of the source) the bundler holds
  result,         \* the last call: its kind, instance, input and output;
                  \* scanned: the call before was the transform of this input;
                  \* again: the input is the text the post before returned
  calls,          \* number of transform/post calls made so far
  inflight        \* the post invocations that began and have not returned yet,
                  \* each suspended between two visitor callbacks (SpecAsync;
                  \* in the other specifications a call runs to its end)

vars == <<configuration, memory, stored, program, result, calls, inflight>>

(***************************************************************************)
(* Bounds.                                                                 *)
(***************************************************************************)
\* Statements of one unit.
MaxStmts == 2
\* RequestedPropertyRename instances sharing the registry.
NumInstances == 2
\* transform/post calls in one behaviour.
MaxCalls == 4
\* Candidates of the allocator specification (SpecAlloc).
MaxAlloc == 110
\* post invocations in flight at once (SpecAsync).
MaxInFlight == 2

(***************************************************************************)
(* Character codes and the alphabet (part_000 lines 54-59, 113).           *)
(***************************************************************************)
A_CHAR_CODE == 65
Z_CHAR_CODE == 90
a_CHAR_CODE == 97
z_CHAR_CODE == 122
\* The marker of the template literal `_${...}`.
UNDERSCORE_CHAR_CODE == 95
\* String.fromCharCode(undefined): ToUint16(NaN) is 0.
NUL_CHAR_CODE == 0

range(from, to) == [count \in 1..(to - from + 1) |-> (count - 1) + from]

VALID_RANGE == range(a_CHAR_CODE, z_CHAR_CODE) \o range(A_CHAR_CODE, Z_CHAR_CODE)

\* VALID_RANGE[position] handed to String.fromCharCode: position is 0-based,
\* and an index past the end reads undefined.
fromCharCode(position) ==
  IF position < Len(VALID_RANGE) THEN VALID_RANGE[position + 1] ELSE NUL_CHAR_CODE

(***************************************************************************)
(* Maps (Map<string, string>) as functions.                                *)
(***************************************************************************)
EmptyMap == [k \in {} |-> <<>>]

MapSet(m, key, value) ==
  [k \in (DOMAIN m) \cup {key} |-> IF k = key THEN value ELSE m[k]]

MapValues(m) == {m[k] : k \in DOMAIN m}

(***************************************************************************)
(* nextRenameValue (part_000 lines 72-93).  The result is the string       *)
(* returned and the value memory.rename.currentCharPositions is left with. *)
(* The do-while tries iterator = 0 .. length; index length reads           *)
(* undefined, and undefined < 52 is false.  An increment mutates the array *)
(* the local variable and the registry share; a reset assigns a new array  *)
(* to the registry only, and the string is built from the local one.       *)
(***************************************************************************)
FirstIncrementable(currentCharPositions) ==
  LET S == {i \in 1..Len(currentCharPositions) :
              currentCharPositions[i] < Len(VALID_RANGE)}
  IN IF S = {} THEN 0 ELSE CHOOSE i \in S : \A j \in S : i <= j

nextRenameValue(storedCount, currentCharPositions) ==
  IF storedCount = 0
  THEN [value |-> <<fromCharCode(0)>>,
        currentCharPositions |-> currentCharPositions]
  ELSE LET iterator == FirstIncrementable(currentCharPositions)
       IN IF iterator > 0
          THEN LET incremented ==
                     [currentCharPositions EXCEPT ![iterator] = @ + 1]
               IN [value |-> [i \in 1..Len(incremented) |->
                                fromCharCode(incremented[i])],
                   currentCharPositions |-> incremented]
          ELSE [value |-> [i \in 1..Len(currentCharPositions) |->
                             fromCharCode(currentCharPositions[i])],
                currentCharPositions |->
                  [i \in 1..Len(currentCharPositions) |-> 0] \o <<0>>]

(***************************************************************************)
(* Syntax nodes.                                                           *)
(***************************************************************************)
NoName == <<>>

Identifier(name) == <<[type |-> "Identifier", name |-> name, size |-> 1]>>

Node(type, children) ==
  <<[type |-> type, name |-> NoName, size |-> 1 + Len(children)]>> \o children

isIdentifier(node) == node.type = "Identifier"
isObjectExpression(node) == node.type = "ObjectExpression"
isVariableDeclarator(node) == node.type = "VariableDeclarator"
isImportDeclaration(node) == node.type = "ImportDeclaration"
isExportAllDeclaration(node) == node.type = "ExportAllDeclaration"
isExportDefaultDeclaration(node) == node.type = "ExportDefaultDeclaration"
isExportNamedDeclaration(node) == node.type = "ExportNamedDeclaration"
isExportSpecifier(node) == node.type = "ExportSpecifier"

(***************************************************************************)
(* storeUnavailable and store (part_000 lines 99-116) on the walk state    *)
(* w = [rename, stored, source].                                           *)
(***************************************************************************)
\* storeUnavailable without the candidates.has(node.name) test.
storeEveryName(w, node) ==
  IF isIdentifier(node)
  THEN [w EXCEPT !.rename.unavailable = @ \cup {node.name}]
  ELSE w

storeUnavailable(w, node) ==
  IF isIdentifier(node) /\ node.name \notin w.rename.candidates
  THEN [w EXCEPT !.rename.unavailable = @ \cup {node.name}]
  ELSE w

\* store without the candidates.has(node.name) test.
storeAnyIdentifier(w, node) ==
  IF /\ isIdentifier(node)
     /\ node.name \notin DOMAIN w.rename.mapping
  THEN LET next == nextRenameValue(w.stored, w.rename.currentCharPositions)
       IN [w EXCEPT
             !.rename.mapping =
                MapSet(@, node.name, <<UNDERSCORE_CHAR_CODE>> \o next.value),
             !.rename.currentCharPositions = next.currentCharPositions,
             !.stored = @ + 1]
  ELSE w

\* store without the mapping.has(node.name) test.
storeAgain(w, node) ==
  IF /\ isIdentifier(node)
     /\ node.name \in w.rename.candidates
  THEN LET next == nextRenameValue(w.stored, w.rename.currentCharPositions)
       IN [w EXCEPT
             !.rename.mapping =
                MapSet(@, node.name, <<UNDERSCORE_CHAR_CODE>> \o next.value),
             !.rename.currentCharPositions = next.currentCharPositions,
             !.stored = @ + 1]
  ELSE w

\* store that marks a short name found in unavailable with a second marker.
storeAvoidingUnavailable(w, node) ==
  IF /\ isIdentifier(node)
     /\ node.name \in w.rename.candidates
     /\ node.name \notin DOMAIN w.rename.mapping
  THEN LET next == nextRenameValue(w.stored, w.rename.currentCharPositions)
           short == <<UNDERSCORE_CHAR_CODE>> \o next.value
       IN [w EXCEPT
             !.rename.mapping =
                MapSet(@, node.name,
                       IF short \in w.rename.unavailable
                       THEN <<UNDERSCORE_CHAR_CODE>> \o short ELSE short),
             !.rename.currentCharPositions = next.currentCharPositions,
             !.stored = @ + 1]
  ELSE w

store(w, node) ==
  IF /\ isIdentifier(node)
     /\ node.name \in w.rename.candidates
     /\ node.name \notin DOMAIN w.rename.mapping
  THEN LET next == nextRenameValue(w.stored, w.rename.currentCharPositions)
       IN [w EXCEPT
             !.rename.mapping =
                MapSet(@, node.name, <<UNDERSCORE_CHAR_CODE>> \o next.value),
             !.rename.currentCharPositions = next.currentCharPositions,
             !.stored = @ + 1]
  ELSE w

(***************************************************************************)
(* maybeOverwrite (part_000 lines 123-130).  index is the node's position, *)
(* standing for node.range; the name looked up is the parsed node's.       *)
(***************************************************************************)
maybeOverwrite(w, node, index) ==
  IF isIdentifier(node) /\ node.name \in DOMAIN w.rename.mapping
  THEN [w EXCEPT !.source[index].name = w.rename.mapping[node.name]]
  ELSE w

(***************************************************************************)
(* The walks of post (part_000 lines 144-193).  estree-walker enters the   *)
(* nodes in pre-order; this.skip() leaves out the node's descendants, so   *)
(* the walk goes on at index + node.size.  A VariableDeclarator holds its  *)
(* id and then its init.                                                   *)
(***************************************************************************)
SkippedByStoreWalk(node) ==
  \/ isImportDeclaration(node)
  \/ isExportAllDeclaration(node)
  \/ isExportDefaultDeclaration(node)
  \/ isExportNamedDeclaration(node)
  \/ isExportSpecifier(node)

\* The second walk's test without the named-export case.
SkippedByOverwriteWalkButNamedExport(node) ==
  \/ isImportDeclaration(node)
  \/ isExportAllDeclaration(node)
  \/ isExportDefaultDeclaration(node)
  \/ isExportSpecifier(node)

SkippedByOverwriteWalk(node) ==
  \/ isImportDeclaration(node)
  \/ isExportAllDeclaration(node)
  \/ isExportDefaultDeclaration(node)
  \/ isExportNamedDeclaration(node)
  \/ isExportSpecifier(node)

\* Index of node.init of the VariableDeclarator at index.
InitIndex(prog, index) == index + 1 + prog[index + 1].size

HasObjectInit(prog, index) ==
  /\ isVariableDeclarator(prog[index])
  /\ InitIndex(prog, index) < index + prog[index].size
  /\ isObjectExpression(prog[InitIndex(prog, index)])

\* Last index of the subtree rooted at index.
LastOf(prog, index) == index + prog[index].size - 1

RECURSIVE NestedStoreWalk(_, _, _, _)
NestedStoreWalk(prog, index, last, w) ==
  IF index > last THEN w
  ELSE NestedStoreWalk(prog, index + 1, last, store(w, prog[index]))

RECURSIVE StoreWalk(_, _, _, _)
StoreWalk(prog, index, last, w) ==
  IF index > last THEN w
  ELSE LET node == prog[index]
           w1 == IF isIdentifier(node) THEN storeUnavailable(w, node) ELSE w
       IN IF SkippedByStoreWalk(node)
          THEN StoreWalk(prog, index + node.size, last, w1)
          ELSE IF HasObjectInit(prog, index)
          THEN StoreWalk(prog, index + node.size, last,
                         NestedStoreWalk(prog, InitIndex(prog, index),
                                         LastOf(prog, InitIndex(prog, index)), w1))
          ELSE StoreWalk(prog, index + 1, last, store(w1, node))

RECURSIVE NestedOverwriteWalk(_, _, _, _)
NestedOverwriteWalk(prog, index, last, w) ==
  IF index > last THEN w
  ELSE NestedOverwriteWalk(prog, index + 1, last,
                           maybeOverwrite(w, prog[index], index))

RECURSIVE OverwriteWalk(_, _, _, _)
OverwriteWalk(prog, index, last, w) ==
  IF index > last THEN w
  ELSE LET node == prog[index]
       IN IF SkippedByOverwriteWalk(node)
          THEN OverwriteWalk(prog, index + node.size, last, w)
          ELSE IF HasObjectInit(prog, index)
          THEN OverwriteWalk(prog, index + node.size, last,
                             NestedOverwriteWalk(prog, InitIndex(prog, index),
                                                 LastOf(prog, InitIndex(prog, index)), w))
          ELSE OverwriteWalk(prog, index + 1, last,
                             maybeOverwrite(w, node, index))

(***************************************************************************)
(* post (part_000 lines 136-197): the registry, this.stored and the source *)
(* it returns.                                                             *)
(***************************************************************************)
\* post without the test of memory.rename.enabled.
postAlways(rename, storedCount, prog) ==
  LET w0 == [rename |-> rename, stored |-> storedCount, source |-> prog]
      w1 == StoreWalk(prog, 1, Len(prog), w0)
  IN IF w1.stored > 0 THEN OverwriteWalk(prog, 1, Len(prog), w1) ELSE w1

post(rename, storedCount, prog) ==
  LET w0 == [rename |-> rename, stored |-> storedCount, source |-> prog]
  IN IF ~rename.enabled THEN w0
     ELSE LET w1 == StoreWalk(prog, 1, Len(prog), w0)
          IN IF w1.stored > 0
             THEN OverwriteWalk(prog, 1, Len(prog), w1)
             ELSE w1

(***************************************************************************)
(* The configuration (property-rename.ts lines 25-58).  A regex is         *)
(* modelled as the anchored literal pattern /^prefix/, held as the         *)
(* prefix's character codes.                                               *)
(***************************************************************************)
NullConfiguration == [null |-> TRUE]
NoRegex == <<>>
NullMangle == [null |-> TRUE]

validateConfiguration(config) ==
  IF config.regex # NoRegex
  THEN [mangle |-> [regex |-> config.regex, reserved |-> config.reserved]]
  ELSE [mangle |-> NullMangle]

RegexTest(regex, name) ==
  /\ Len(name) >= Len(regex)
  /\ SubSeq(name, 1, Len(regex)) = regex

(***************************************************************************)
(* transform (property-rename.ts lines 68-96): the scan.  The walk enters  *)
(* every node; s = [candidates, foundCandidate].                           *)
(***************************************************************************)
ScanEnter(regex, s, node) ==
  IF isIdentifier(node) /\ RegexTest(regex, node.name)
  THEN [candidates |-> s.candidates \cup {node.name}, foundCandidate |-> TRUE]
  ELSE s

\* The scan with the traversal rule of post: import and export declaration
\* subtrees are not entered.
RECURSIVE ScanWalkSkippingModules(_, _, _, _)
ScanWalkSkippingModules(regex, prog, index, s) ==
  IF index > Len(prog) THEN s
  ELSE IF SkippedByStoreWalk(prog[index])
  THEN ScanWalkSkippingModules(regex, prog, index + prog[index].size, s)
  ELSE ScanWalkSkippingModules(regex, prog, index + 1,
                               ScanEnter(regex, s, prog[index]))

RECURSIVE ScanWalk(_, _, _, _)
ScanWalk(regex, prog, index, s) ==
  IF index > Len(prog) THEN s
  ELSE ScanWalk(regex, prog, index + 1, ScanEnter(regex, s, prog[index]))

transform(config, rename, prog) ==
  IF config = NullConfiguration THEN rename
  ELSE LET renaming == validateConfiguration(config)
       IN IF renaming.mangle # NullMangle
          THEN LET s == ScanWalk(renaming.mangle.regex, prog, 1,
                                 [candidates |-> rename.candidates,
                                  foundCandidate |-> FALSE])
               IN [rename EXCEPT
                     !.candidates = s.candidates,
                     !.enabled = IF s.foundCandidate THEN TRUE ELSE @]
          ELSE rename

(***************************************************************************)
(* The registry after construction.                                        *)
(***************************************************************************)
InitialRename ==
  [enabled |-> FALSE,
   candidates |-> {},
   unavailable |-> {},
   mapping |-> EmptyMap,
   currentCharPositions |-> <<>>]

Instances == 1..NumInstances

NoResult == [op |-> "none"]

\* The slots of the post invocations in flight; none is running.
Invocations == 1..MaxInFlight
NotRunning == [pass |-> "none"]
NoneInFlight == [slot \in Invocations |-> NotRunning]

Program(statements) == Node("Program", statements)

(***************************************************************************)
(* SpecAlloc: the allocator on its own.  One instance stores the           *)
(* candidates CandidateName(1), CandidateName(2), ... of a scanned unit,   *)
(* in that order.                                                          *)
(***************************************************************************)
CandidateName(k) == <<UNDERSCORE_CHAR_CODE, UNDERSCORE_CHAR_CODE, k>>

InitAlloc ==
  /\ configuration = [regex |-> <<UNDERSCORE_CHAR_CODE>>, reserved |-> {}]
  /\ memory = [InitialRename EXCEPT
                 !.enabled = TRUE,
                 !.candidates = {CandidateName(k) : k \in 1..MaxAlloc}]
  /\ stored = [i \in Instances |-> 0]
  /\ program = Program(<<>>)
  /\ result = NoResult
  /\ calls = 0
  /\ inflight = NoneInFlight

StoreNext ==
  /\ stored[1] < MaxAlloc
  /\ LET w == store([rename |-> memory, stored |-> stored[1]],
                    Identifier(CandidateName(stored[1] + 1))[1])
     IN /\ memory' = w.rename
        /\ stored' = [stored EXCEPT ![1] = w.stored]
  /\ UNCHANGED <<configuration, program, result, calls, inflight>>

NextAlloc == StoreNext

SpecAlloc == InitAlloc /\ [][NextAlloc]_vars

\* The name the N-th allocation produced.
NthName(N) == memory.mapping[CandidateName(N)]

Injective(m) == \A k1, k2 \in DOMAIN m : m[k1] = m[k2] => k1 = k2

(***************************************************************************)
(* The units.  Names are those of the class fixture, a name that is also   *)
(* the first short name, and a name the pattern does not match.            *)
(***************************************************************************)
\* "_foo", "_bar", "_a", "a"
Name_foo == <<95, 102, 111, 111>>
Name_bar == <<95, 98, 97, 114>>
Name_a == <<95, 97>>
NameA == <<97>>

Names == {Name_foo, Name_bar, Name_a, NameA}

ModuleTypes ==
  {"ImportDeclaration", "ExportAllDeclaration", "ExportDefaultDeclaration",
   "ExportNamedDeclaration", "ExportSpecifier"}

\* this.<name> as a statement.
Expression(name) == Node("ExpressionStatement", Identifier(name))

\* An import or export declaration naming <name>.
ModuleDeclaration(type, name) == Node(type, Identifier(name))

\* const <bound> = { <key>: ... }
ObjectDeclarator(bound, key) ==
  Node("VariableDeclarator",
       Identifier(bound) \o Node("ObjectExpression", Identifier(key)))

\* const <bound> = <value>
PlainDeclarator(bound, value) ==
  Node("VariableDeclarator", Identifier(bound) \o Identifier(value))

Statements ==
  {Expression(n) : n \in Names}
    \cup {ModuleDeclaration(t, Name_foo) : t \in ModuleTypes}
    \cup {ObjectDeclarator(Name_bar, k) : k \in {Name_foo, NameA}}
    \cup {PlainDeclarator(Name_bar, Name_foo)}

RECURSIVE CountFrom(_, _)
CountFrom(prog, index) ==
  IF index > Len(prog) THEN 0 ELSE 1 + CountFrom(prog, index + prog[index].size)

\* Number of statements of the program.
StatementCount(prog) == CountFrom(prog, 2)

Configurations ==
  {NullConfiguration}
    \cup {[regex |-> r, reserved |-> rs] :
            r \in {NoRegex, <<UNDERSCORE_CHAR_CODE>>},
            rs \in {{}, {Name_bar, Name_a}}}

(***************************************************************************)
(* Spec: the registry under any sequence of transform and post calls.      *)
(***************************************************************************)
Init ==
  /\ configuration \in Configurations
  /\ memory = InitialRename
  /\ stored = [i \in Instances |-> 0]
  /\ program = Program(<<>>)
  /\ result = NoResult
  /\ calls = 0
  /\ inflight = NoneInFlight

\* The bundler turns to another unit.
NewUnit ==
  /\ Len(program) > 1
  /\ program' = Program(<<>>)
  /\ result' = NoResult
  /\ UNCHANGED <<configuration, memory, stored, calls, inflight>>

\* The unit under construction gets one more statement.
AddStatement(statement) ==
  /\ StatementCount(program) < MaxStmts
  /\ program' = Program(Tail(program) \o statement)
  /\ result' = NoResult
  /\ UNCHANGED <<configuration, memory, stored, calls, inflight>>

Transform ==
  /\ calls < MaxCalls
  /\ Len(program) > 1
  /\ memory' = transform(configuration, memory, program)
  /\ result' = [op |-> "transform", instance |-> 0, again |-> FALSE,
                scanned |-> TRUE, input |-> program, output |-> program,
                storedBefore |-> 0]
  /\ calls' = calls + 1
  /\ UNCHANGED <<configuration, stored, program, inflight>>

\* One post call of an instance on the unit prog.
PostCall(instance, prog, again) ==
  /\ calls < MaxCalls
  /\ LET w == post(memory, stored[instance], prog)
     IN /\ memory' = w.rename
        /\ stored' = [stored EXCEPT ![instance] = w.stored]
        /\ result' = [op |-> "post", instance |-> instance, again |-> again,
                      scanned |-> (result.op = "transform" /\ result.input = prog),
                      input |-> prog, output |-> w.source,
                      storedBefore |-> stored[instance]]
  /\ calls' = calls + 1
  /\ UNCHANGED <<configuration, program, inflight>>

\* post on the unit the bundler holds.
Post(instance) ==
  /\ Len(program) > 1
  /\ PostCall(instance, program, FALSE)

\* post on the text the previous post returned.
PostAgain(instance) ==
  /\ result.op = "post"
  /\ PostCall(instance, result.output, TRUE)

Next ==
  \/ NewUnit
  \/ \E statement \in Statements : AddStatement(statement)
  \/ Transform
  \/ \E instance \in Instances : Post(instance)
  \/ \E instance \in Instances : PostAgain(instance)

Spec == Init /\ [][Next]_vars

(***************************************************************************)
(* SpecOrdered: the calls of Spec with every post after the scan of its    *)
(* unit.  The scan of a unit leaves every identifier name of it that the   *)
(* pattern matches in candidates, and candidates never loses a name; a     *)
(* unit of which that holds is one whose scan has nothing left to add, so  *)
(* post is enabled on exactly these units.                                 *)
(***************************************************************************)
ScanCompleted(unit) ==
  transform(configuration, memory, unit) = memory

OrderedPost(instance) ==
  /\ ScanCompleted(program)
  /\ Post(instance)

OrderedPostAgain(instance) ==
  /\ result.op = "post"
  /\ ScanCompleted(result.output)
  /\ PostAgain(instance)

NextOrdered ==
  \/ NewUnit
  \/ \E statement \in Statements : AddStatement(statement)
  \/ Transform
  \/ \E instance \in Instances : OrderedPost(instance)
  \/ \E instance \in Instances : OrderedPostAgain(instance)

SpecOrdered == Init /\ [][NextOrdered]_vars

(***************************************************************************)
(* SpecAsync: post invocations interleaved.  post and the enter callbacks  *)
(* of its walks are async functions (part_000 lines 136-197): a call is    *)
(* suspended at `await parse`, and a walk between one enter callback and   *)
(* the next, and other invocations sharing the registry run meanwhile.     *)
(* storeUnavailable, store and maybeOverwrite are synchronous, so one      *)
(* enter callback is one step.  An invocation in flight is                 *)
(*   [instance, prog, source, pass, index, nested, storedBefore]:          *)
(* the tree parsed, the text being patched, the walk it is in, the next    *)
(* node of that walk and, inside the nested walk of an object-literal      *)
(* initializer, the next node and the last node of the initializer.        *)
(***************************************************************************)
\* The units posted: uses of two names, a declarator with an object-literal
\* initializer and a use of its bound name, an import and a use of its name.
AsyncUnits ==
  {Program(Expression(Name_foo) \o Expression(Name_bar)),
   Program(ObjectDeclarator(Name_bar, Name_foo) \o Expression(Name_bar)),
   Program(ModuleDeclaration("ImportDeclaration", Name_foo) \o Expression(Name_foo))}

NotNested == [index |-> 0, last |-> 0]

InitAsync ==
  /\ configuration = [regex |-> <<UNDERSCORE_CHAR_CODE>>, reserved |-> {}]
  /\ memory = InitialRename
  /\ stored = [i \in Instances |-> 0]
  /\ program = Program(<<>>)
  /\ result = NoResult
  /\ calls = 0
  /\ inflight = NoneInFlight

\* The scan of a unit, run to its end: its enter callback only adds names to
\* candidates, and enabled is set after the walk.
AsyncTransform(unit) ==
  /\ calls < MaxCalls
  /\ memory' = transform(configuration, memory, unit)
  /\ result' = [op |-> "transform", instance |-> 0, again |-> FALSE,
                scanned |-> TRUE, input |-> unit, output |-> unit,
                storedBefore |-> 0]
  /\ calls' = calls + 1
  /\ UNCHANGED <<configuration, stored, program, inflight>>

\* What post returns.
Returned(invocation) ==
  [op |-> "post", instance |-> invocation.instance, again |-> FALSE,
   scanned |-> FALSE, input |-> invocation.prog,
   output |-> invocation.source, storedBefore |-> invocation.storedBefore]

\* post is called (the invocation takes the first free slot): it returns at
\* once while the registry is not enabled, and is suspended at `await parse`
\* otherwise.
Begin(slot, instance, unit) ==
  /\ calls < MaxCalls
  /\ inflight[slot] = NotRunning
  /\ \A lower \in 1..(slot - 1) : inflight[lower] # NotRunning
  /\ LET invocation == [instance |-> instance, prog |-> unit, source |-> unit,
                        pass |-> "store", index |-> 1, nested |-> NotNested,
                        storedBefore |-> stored[instance]]
     IN IF ~memory.enabled
        THEN /\ result' = Returned(invocation)
             /\ inflight' = inflight
        ELSE /\ inflight' = [inflight EXCEPT ![slot] = invocation]
             /\ result' = result
  /\ calls' = calls + 1
  /\ UNCHANGED <<configuration, memory, stored, program>>

\* The walk the invocation is in has entered its last node.
WalkDone(invocation) ==
  /\ invocation.index > Len(invocation.prog)
  /\ invocation.nested = NotNested

\* The invocation after the nested walk entered its next node.
NestedAdvance(invocation) ==
  [invocation EXCEPT
     !.nested = IF @.index + 1 > @.last THEN NotNested
                ELSE [@ EXCEPT !.index = @ + 1]]

\* One enter callback of the first walk (part_000 lines 144-168): the walk
\* state it leaves and the invocation's next position.
StoreEnter(invocation, w) ==
  LET prog == invocation.prog
      index == invocation.index
  IN IF invocation.nested # NotNested
     THEN [w |-> store(w, prog[invocation.nested.index]),
           invocation |-> NestedAdvance(invocation)]
     ELSE LET node == prog[index]
              w1 == IF isIdentifier(node) THEN storeUnavailable(w, node) ELSE w
          IN IF SkippedByStoreWalk(node)
             THEN [w |-> w1,
                   invocation |-> [invocation EXCEPT !.index = @ + node.size]]
             ELSE IF HasObjectInit(prog, index)
             THEN [w |-> w1,
                   invocation |->
                     [invocation EXCEPT
                        !.index = @ + node.size,
                        !.nested = [index |-> InitIndex(prog, index),
                                    last |-> LastOf(prog, InitIndex(prog, index))]]]
             ELSE [w |-> store(w1, node),
                   invocation |-> [invocation EXCEPT !.index = @ + 1]]

\* One enter callback of the second walk (part_000 lines 172-193).
OverwriteEnter(invocation, w) ==
  LET prog == invocation.prog
      index == invocation.index
  IN IF invocation.nested # NotNested
     THEN [w |-> maybeOverwrite(w, prog[invocation.nested.index],
                                invocation.nested.index),
           invocation |-> NestedAdvance(invocation)]
     ELSE LET node == prog[index]
          IN IF SkippedByOverwriteWalk(node)
             THEN [w |-> w,
                   invocation |-> [invocation EXCEPT !.index = @ + node.size]]
             ELSE IF HasObjectInit(prog, index)
             THEN [w |-> w,
                   invocation |->
                     [invocation EXCEPT
                        !.index = @ + node.size,
                        !.nested = [index |-> InitIndex(prog, index),
                                    last |-> LastOf(prog, InitIndex(prog, index))]]]
             ELSE [w |-> maybeOverwrite(w, node, index),
                   invocation |-> [invocation EXCEPT !.index = @ + 1]]

\* The invocation resumes and runs one enter callback.
Enter(slot) ==
  /\ inflight[slot] # NotRunning
  /\ ~WalkDone(inflight[slot])
  /\ LET invocation == inflight[slot]
         w == [rename |-> memory, stored |-> stored[invocation.instance],
               source |-> invocation.source]
         entered == IF invocation.pass = "store"
                    THEN StoreEnter(invocation, w)
                    ELSE OverwriteEnter(invocation, w)
     IN /\ memory' = entered.w.rename
        /\ stored' = [stored EXCEPT ![invocation.instance] = entered.w.stored]
        /\ inflight' = [inflight EXCEPT ![slot] =
                          [entered.invocation EXCEPT !.source = entered.w.source]]
  /\ UNCHANGED <<configuration, program, result, calls>>

\* The first walk is over: the second begins if this.stored > 0 (line 170),
\* and post returns the source otherwise.
AfterStoreWalk(slot) ==
  /\ inflight[slot] # NotRunning
  /\ inflight[slot].pass = "store"
  /\ WalkDone(inflight[slot])
  /\ IF stored[inflight[slot].instance] > 0
     THEN /\ inflight' = [inflight EXCEPT ![slot].pass = "overwrite",
                                          ![slot].index = 1]
          /\ result' = result
     ELSE /\ inflight' = [inflight EXCEPT ![slot] = NotRunning]
          /\ result' = Returned(inflight[slot])
  /\ UNCHANGED <<configuration, memory, stored, program, calls>>

\* The second walk is over: post returns the source (line 196).
Return(slot) ==
  /\ inflight[slot] # NotRunning
  /\ inflight[slot].pass = "overwrite"
  /\ WalkDone(inflight[slot])
  /\ inflight' = [inflight EXCEPT ![slot] = NotRunning]
  /\ result' = Returned(inflight[slot])
  /\ UNCHANGED <<configuration, memory, stored, program, calls>>

NextAsync ==
  \/ \E unit \in AsyncUnits : AsyncTransform(unit)
  \/ \E slot \in Invocations, instance \in Instances, unit \in AsyncUnits :
        Begin(slot, instance, unit)
  \/ \E slot \in Invocations : Enter(slot)
  \/ \E slot \in Invocations : AfterStoreWalk(slot)
  \/ \E slot \in Invocations : Return(slot)

SpecAsync == InitAsync /\ [][NextAsync]_vars

(***************************************************************************)
(* What the claims speak of.                                               *)
(***************************************************************************)
IsPost == result.op = "post"

Identifiers(prog) == {i \in 1..Len(prog) : prog[i].type = "Identifier"}

\* Node i lies inside an import declaration or an export declaration form.
InModuleDeclaration(prog, i) ==
  \E j \in 1..(i - 1) :
     /\ prog[j].type \in ModuleTypes
     /\ i < j + prog[j].size

\* Node d is a variable declarator whose initializer is an object literal,
\* outside import and export declarations.
IsObjectDeclarator(prog, d) ==
  /\ prog[d].type = "VariableDeclarator"
  /\ d + 1 + prog[d + 1].size < d + prog[d].size
  /\ prog[d + 1 + prog[d + 1].size].type = "ObjectExpression"
  /\ ~InModuleDeclaration(prog, d)

\* The nodes of the initializer of the declarator d.
InitializerNodes(prog, d) ==
  LET init == d + 1 + prog[d + 1].size
  IN init..(init + prog[init].size - 1)

\* The configured pattern matches the name.
PatternMatches(name) ==
  /\ configuration # NullConfiguration
  /\ configuration.regex # NoRegex
  /\ Len(name) >= Len(configuration.regex)
  /\ \A k \in 1..Len(configuration.regex) : name[k] = configuration.regex[k]

NoIdentifierMatches(prog) ==
  \A i \in Identifiers(prog) : ~PatternMatches(prog[i].name)

\* C1: every occurrence of a renamed name in the unit post processed gets the
\* same short name, and none keeps its original text while another one is
\* rewritten; the bound name of a declarator with an object-literal
\* initializer is one of the occurrences.  (Occurrences inside import and
\* export declarations are left out here: C3 keeps them as they are.)
C1_Consistency ==
  IsPost =>
    \A i, j \in Identifiers(result.input) :
       ( /\ ~InModuleDeclaration(result.input, i)
         /\ ~InModuleDeclaration(result.input, j)
         /\ result.input[i].name = result.input[j].name
         /\ result.output[i].name # result.input[i].name )
       => result.output[j].name = result.output[i].name

\* C2: a unit none of whose identifiers matches the pattern comes back from
\* the scan and from post exactly as it went in, whatever the registry holds.
C2_NoOp ==
  (result.op \in {"transform", "post"} /\ NoIdentifierMatches(result.input))
    => result.output = result.input

\* C2 witness: an enabled registry with a mapping from an earlier unit; a unit
\* with identifiers none of which matches was scanned and then posted.
C2_Witness ==
  /\ IsPost
  /\ result.scanned
  /\ memory.enabled
  /\ DOMAIN memory.mapping # {}
  /\ stored[result.instance] > 0
  /\ Identifiers(result.input) # {}
  /\ NoIdentifierMatches(result.input)
  /\ result.output = result.input

\* C3: post leaves every identifier inside an import declaration or an export
\* declaration form as it is.
C3_ModuleBoundary ==
  IsPost =>
    \A i \in Identifiers(result.input) :
       InModuleDeclaration(result.input, i)
         => result.output[i].name = result.input[i].name

\* C3 witness: the name inside the declaration matches the pattern, has a
\* mapping, and another occurrence of it in the same unit was rewritten.
C3_Witness ==
  /\ IsPost
  /\ \E i, j \in Identifiers(result.input) :
        /\ InModuleDeclaration(result.input, i)
        /\ ~InModuleDeclaration(result.input, j)
        /\ result.input[i].name = result.input[j].name
        /\ PatternMatches(result.input[i].name)
        /\ result.input[i].name \in DOMAIN memory.mapping
        /\ result.output[j].name = memory.mapping[result.input[j].name]
        /\ result.output[j].name # result.input[j].name
        /\ result.output[i].name = result.input[i].name

\* C4: a reserved name is never a candidate and is never renamed.
C4_Reserved ==
  configuration # NullConfiguration =>
    /\ memory.candidates \cap configuration.reserved = {}
    /\ IsPost =>
         \A i \in Identifiers(result.input) :
            result.input[i].name \in configuration.reserved
              => result.output[i].name = result.input[i].name

\* C5: the names of the first N allocations of a fresh allocator are pairwise
\* distinct.
C5_AllocatorUniqueness ==
  \A M, N \in 1..stored[1] : M # N => NthName(M) # NthName(N)

\* C6: the short names in mapping are pairwise distinct.
C6_MappingInjective == Injective(memory.mapping)

\* The k-th name of the allocator as the specification describes it, for
\* k up to the size of the alphabet: the marker and the k-th letter.
ExpectedName(k) == <<UNDERSCORE_CHAR_CODE, VALID_RANGE[k]>>

\* The statements of the program are plain expressions on identifiers.
RECURSIVE OnlyExpressionsFrom(_, _)
OnlyExpressionsFrom(prog, index) ==
  \/ index > Len(prog)
  \/ /\ prog[index].type = "ExpressionStatement"
     /\ prog[index].size = 2
     /\ OnlyExpressionsFrom(prog, index + 2)

\* The distinct candidate names of such a program in the order first seen.
RECURSIVE FirstSeen(_, _, _)
FirstSeen(prog, index, seen) ==
  IF index > Len(prog) THEN seen
  ELSE LET name == prog[index].name
       IN FirstSeen(prog, index + 1,
                    IF /\ prog[index].type = "Identifier"
                       /\ name \in memory.candidates
                       /\ \A k \in 1..Len(seen) : seen[k] # name
                    THEN Append(seen, name) ELSE seen)

\* The registry had no mapping when the last post began.
PostOnFreshRegistry ==
  /\ IsPost
  /\ result.storedBefore = 0
  /\ \A other \in Instances \ {result.instance} : stored[other] = 0

\* C7: from a fresh registry the k-th distinct candidate first seen gets the
\* k-th allocator name (_a, then _b), and identifiers that are no candidates
\* are untouched.
C7_FirstSeenOrder ==
  (PostOnFreshRegistry /\ OnlyExpressionsFrom(result.input, 2)) =>
    LET seen == FirstSeen(result.input, 1, <<>>)
    IN /\ \A k \in 1..Len(seen) :
             /\ seen[k] \in DOMAIN memory.mapping
             /\ memory.mapping[seen[k]] = ExpectedName(k)
       /\ \A i \in Identifiers(result.input) :
             result.input[i].name \notin memory.candidates
               => result.output[i].name = result.input[i].name

\* C8: of a declarator with an object-literal initializer, post gives every
\* candidate identifier inside the initializer a mapping and overwrites it,
\* and leaves the bound name as it is.
C8_ObjectLiteralIsolation ==
  (IsPost /\ memory.enabled) =>
    \A d \in 1..Len(result.input) :
       IsObjectDeclarator(result.input, d) =>
         /\ \A i \in InitializerNodes(result.input, d) :
               ( /\ result.input[i].type = "Identifier"
                 /\ result.input[i].name \in memory.candidates )
               => /\ result.input[i].name \in DOMAIN memory.mapping
                  /\ result.output[i].name = memory.mapping[result.input[i].name]
         /\ result.output[d + 1].name = result.input[d + 1].name

\* Every candidate name of the unit had its mapping when the last post began.
MappingWasPopulated ==
  /\ result.storedBefore = stored[result.instance]
  /\ \A i \in Identifiers(result.input) :
        result.input[i].name \in memory.candidates
          => result.input[i].name \in DOMAIN memory.mapping

\* C9: post applied to the text the post before returned, with the mapping
\* populated for every candidate of it, returns that text unchanged.
C9_Idempotence ==
  (IsPost /\ result.again /\ MappingWasPopulated)
    => result.output = result.input

\* C10: no short name in mapping is an unavailable name.
C10_NoCollision == MapValues(memory.mapping) \cap memory.unavailable = {}

\* The name is the marker followed by one or more letters of the alphabet.
WellFormedShortName(name) ==
  /\ Len(name) >= 2
  /\ name[1] = UNDERSCORE_CHAR_CODE
  /\ \A k \in 2..Len(name) :
        \E position \in 1..Len(VALID_RANGE) : name[k] = VALID_RANGE[position]

\* C11: every short name in mapping is the marker followed by at least one
\* character, and every character after the marker is one of a..z, A..Z.
C11_ShortNameShape ==
  \A key \in DOMAIN memory.mapping : WellFormedShortName(memory.mapping[key])

\* The digit positions a fresh allocator is left with by its first n
\* allocations, and the name its n-th allocation returns with the marker.
RECURSIVE FreshPositions(_)
FreshPositions(n) ==
  IF n = 0 THEN InitialRename.currentCharPositions
  ELSE nextRenameValue(n - 1, FreshPositions(n - 1)).currentCharPositions

FreshName(n) ==
  <<UNDERSCORE_CHAR_CODE>> \o nextRenameValue(n - 1, FreshPositions(n - 1)).value

\* Every allocation so far was made by this instance, from the fresh registry.
SoleAllocator(instance) ==
  \A other \in Instances \ {instance} : stored[other] = 0

\* C12: whatever the units, the candidates and the calls of a run, the names
\* the first N allocations of a fresh allocator hand out are the first N
\* names of one fixed sequence: the N-th name depends on N alone, so two
\* runs that make the same number of allocations agree on every name.
C12_Determinism ==
  \A instance \in Instances :
     SoleAllocator(instance) =>
       MapValues(memory.mapping) = {FreshName(N) : N \in 1..stored[instance]}

\* C12 witness: one instance has made three allocations (the first name, the
\* reset and an increment) in more than one post, with unavailable names in
\* the registry.
C12_Witness ==
  /\ IsPost
  /\ \E instance \in Instances :
        /\ SoleAllocator(instance)
        /\ stored[instance] = 3
        /\ result.storedBefore \in 1..2
  /\ memory.unavailable # {}
  /\ MapValues(memory.mapping) = {FreshName(1), FreshName(2), FreshName(3)}

\* Node i is one the walks of post enter: it lies outside import and export
\* declarations and, inside a declarator with an object-literal initializer,
\* inside the initializer.
Visited(prog, i) ==
  /\ ~InModuleDeclaration(prog, i)
  /\ \A d \in 1..(i - 1) :
        (IsObjectDeclarator(prog, d) /\ i < d + prog[d].size)
          => i \in InitializerNodes(prog, d)

\* C13: with the registry enabled, post overwrites every identifier it visits
\* whose name has a mapping with the mapped short name, whether the mapping
\* was assigned in this post or in an earlier one.
C13_OverwriteMapped ==
  (IsPost /\ memory.enabled) =>
    \A i \in Identifiers(result.input) :
       (Visited(result.input, i) /\ result.input[i].name \in DOMAIN memory.mapping)
         => result.output[i].name = memory.mapping[result.input[i].name]

\* The name occurs in the program, and only inside import and export
\* declarations.
OnlyInModuleDeclarations(prog, name) ==
  /\ \E i \in Identifiers(prog) : prog[i].name = name
  /\ \A i \in Identifiers(prog) :
        prog[i].name = name => InModuleDeclaration(prog, i)

NameOf(positions) ==
  <<UNDERSCORE_CHAR_CODE>> \o [i \in 1..Len(positions) |-> VALID_RANGE[positions[i] + 1]]

\* The step is an allocation that found no digit position to increment and
\* appended one.
SaturationStep ==
  /\ stored'[1] = stored[1] + 1
  /\ Len(memory.currentCharPositions) >= 1
  /\ Len(memory'.currentCharPositions) > Len(memory.currentCharPositions)

\* C15: the allocation that finds every digit position at its maximum resets
\* all positions to 0 and appends one 0, and the name that same call returns
\* is built from the new positions: it is one character longer than the name
\* returned before it.
C15_Saturation ==
  [][ SaturationStep =>
        LET before == memory.currentCharPositions
            after == memory'.currentCharPositions
            returned == memory'.mapping[CandidateName(stored'[1])]
        IN /\ after = [i \in 1..(Len(before) + 1) |-> 0]
           /\ returned = NameOf(after)
           /\ Len(returned) = Len(NthName(stored[1])) + 1
    ]_vars

\* C16: after any number of allocations every digit position is an index of
\* the alphabet, 0 to 51, and an allocation never leaves fewer positions
\* than it found.
C16_PositionsInRange ==
  [][ /\ \A i \in 1..Len(memory'.currentCharPositions) :
           memory'.currentCharPositions[i] \in 0..(Len(VALID_RANGE) - 1)
      /\ Len(memory'.currentCharPositions) >= Len(memory.currentCharPositions)
    ]_vars

\* C17: whatever the order and the interleaving of post invocations on one
\* registry, a step never changes or removes an entry mapping has, so every
\* candidate is assigned at most once; and every key of mapping is a
\* candidate.
C17_SingleAssignment ==
  [][ /\ \A name \in DOMAIN memory.mapping :
           /\ name \in DOMAIN memory'.mapping
           /\ memory'.mapping[name] = memory.mapping[name]
      /\ DOMAIN memory'.mapping \subseteq memory'.candidates
    ]_vars

\* The invocation's first walk has entered an identifier with this name.
HasStored(invocation, name) ==
  /\ invocation # NotRunning
  /\ \E i \in Identifiers(invocation.prog) :
        /\ invocation.prog[i].name = name
        /\ Visited(invocation.prog, i)
        /\ \/ invocation.pass = "overwrite"
           \/ /\ i < invocation.index
              /\ invocation.nested = NotNested \/ i < invocation.nested.index

\* C17 witness: two invocations of different instances are in flight, both
\* suspended inside their first walk after entering an identifier of the
\* same candidate, which has its one mapping.
C17_Witness ==
  \E slot, other \in Invocations :
     /\ slot # other
     /\ inflight[slot] # NotRunning
     /\ inflight[other] # NotRunning
     /\ inflight[slot].instance # inflight[other].instance
     /\ inflight[slot].pass = "store" /\ ~WalkDone(inflight[slot])
     /\ inflight[other].pass = "store" /\ ~WalkDone(inflight[other])
     /\ \E name \in DOMAIN memory.mapping :
           /\ HasStored(inflight[slot], name)
           /\ HasStored(inflight[other], name)

\* C18: with the scan of every unit completed before the unit's post begins,
\* no name is both a candidate and unavailable.
C18_Disjoint == memory.candidates \cap memory.unavailable = {}

\* C18 witness: a unit with a candidate and another identifier was scanned
\* and then posted: the candidate has its mapping, the other name is
\* unavailable.
C18_Witness ==
  /\ IsPost
  /\ result.scanned
  /\ \E i, j \in Identifiers(result.input) :
        /\ result.input[i].name \in memory.candidates
        /\ result.input[i].name \in DOMAIN memory.mapping
        /\ result.input[j].name \in memory.unavailable

\* C19: enabled is never reset to false; it becomes true only in a scan of a
\* unit with an identifier the pattern matches; and a post while it is false
\* returns the source unchanged and leaves the registry (unavailable,
\* mapping and digit positions among it) and every stored counter as they
\* were.
C19_EnabledGate ==
  [][ /\ memory.enabled => memory'.enabled
      /\ (~memory.enabled /\ memory'.enabled) =>
           /\ calls' = calls + 1
           /\ result'.op = "transform"
           /\ ~NoIdentifierMatches(result'.input)
      /\ (calls' = calls + 1 /\ result'.op = "post" /\ ~memory.enabled) =>
           /\ result'.output = result'.input
           /\ memory' = memory
           /\ stored' = stored
    ]_vars

\* C19 witness: post ran, before any scan, on a unit with an identifier the
\* pattern matches and one it does not match; the registry is still as
\* constructed.
C19_Witness ==
  /\ IsPost
  /\ ~memory.enabled
  /\ \E i, j \in Identifiers(result.input) :
        /\ PatternMatches(result.input[i].name)
        /\ ~PatternMatches(result.input[j].name)
  /\ result.output = result.input
  /\ memory = InitialRename
  /\ stored = [i \in Instances |-> 0]

\* C20: no short name in mapping is one of the reserved names of the
\* configuration.
C20_NoReservedShortName ==
  configuration # NullConfiguration =>
    MapValues(memory.mapping) \cap configuration.reserved = {}

====
